---- MODULE Spec2Model ----
(***************************************************************************)
(* Model of the cache-backed response pipeline of clashroyale_py:          *)
(* SqliteCacheStorage (cache.py) and Client._get_info_from_url             *)
(* (client.py).  Time is counted in whole TTL units (minutes).             *)
(***************************************************************************)
EXTENDS Integers, FiniteSets, Sequences, TLC

\* ------------------------------------------------------------------ bounds
MaxTime == 2
MaxTTL == 2
MaxTagLen == 3

\* Offsets (local time minus UTC) of the process's timezone, in time units.
TZOffsets == {-1, 0, 2}

\* Request URLs used as cache keys.
Keys == {"A", "B"}

\* ---------------------------------------------------------------- payloads
\* A payload is a python dict or list; `keys` is the type of the dict keys and
\* `items` identifies the content (0 is the empty container).
EmptyList == [shape |-> "list", keys |-> "none", items |-> 0]
Dict1 == [shape |-> "dict", keys |-> "str", items |-> 1]
IntKeyDict == [shape |-> "dict", keys |-> "int", items |-> 1]
NoData == [shape |-> "none", keys |-> "none", items |-> 0]

\* What response.json() can produce.
JsonPayloads == {EmptyList, Dict1}
\* What a caller of the store can pass as `value: dict`.
Payloads == JsonPayloads \cup {IntKeyDict}

\* bool(value) of a python container
Truthy(value) == value.items > 0

\* a serialisation that writes every container as an object
json_dumps_as_object(value) == [shape |-> "object", items |-> value.items]

\* json.dumps: the JSON text of an object or array; object keys become strings
json_dumps(value) ==
    [shape |-> IF value.shape = "dict" THEN "object" ELSE "array",
     items |-> value.items]

\* json.loads: objects become dicts with str keys, arrays become lists
json_loads(text) ==
    IF text.shape = "object"
    THEN [shape |-> "dict", keys |-> "str", items |-> text.items]
    ELSE [shape |-> "list", keys |-> "none", items |-> text.items]

\* --------------------------------------------------------------- exceptions
NoError == [cls |-> "None", msg |-> ""]
KeyErrorNotFound == [cls |-> "KeyError", msg |-> "not found in cache"]
KeyErrorExpired == [cls |-> "KeyError", msg |-> "expired in cache"]
StoreError == [cls |-> "sqlite3.Error", msg |-> ""]
UnexpectedError == [cls |-> "errors.UnexpectedError", msg |-> ""]
TransportErrors == {[cls |-> "requests.RequestException", msg |-> ""]}

\* isinstance(error, KeyError)
IsKeyError(error) == error.cls = "KeyError"

\* -------------------------------------------------------------------- tags
\* A tag is a string, written as the sequence of its characters.
VALID_TAG_CHARS ==
    {"0", "2", "8", "9", "P", "Y", "L", "Q", "G", "R", "J", "C", "U", "V"}

\* Characters the tags of a caller are made of: the prefix sign, a letter
\* that normalisation turns into a valid digit, and a letter that stays
\* invalid.
TagChars == {"#", "o", "x"}

Tags == UNION {[1..n -> TagChars] : n \in 0..MaxTagLen}

RECURSIVE lstrip(_, _)
\* str.lstrip(ch)
lstrip(s, ch) ==
    IF s # <<>> /\ Head(s) = ch THEN lstrip(Tail(s), ch) ELSE s

RECURSIVE rstrip(_, _)
\* str.rstrip(ch)
rstrip(s, ch) ==
    IF s # <<>> /\ s[Len(s)] = ch
    THEN rstrip(SubSeq(s, 1, Len(s) - 1), ch)
    ELSE s

\* str.strip(ch): removes the leading and the trailing run of ch
strip(s, ch) == rstrip(lstrip(s, ch), ch)

\* str.upper() on the letters that occur in tags
upper(s) ==
    [i \in 1..Len(s) |->
        IF s[i] = "o" THEN "O" ELSE IF s[i] = "x" THEN "X" ELSE s[i]]

\* str.replace(old, new) for single characters
replace(s, old, new) ==
    [i \in 1..Len(s) |-> IF s[i] = old THEN new ELSE s[i]]

\* str.startswith(prefix)
startswith(s, prefix) ==
    Len(s) >= Len(prefix) /\ SubSeq(s, 1, Len(prefix)) = prefix

ValueErrorInvalidChar == [cls |-> "ValueError", msg |-> "invalid character(s)"]
ValueErrorTooShort == [cls |-> "ValueError", msg |-> "too short"]

\* tag.strip('#').upper().replace('O', '0')
cleaned(tag) == replace(upper(strip(tag, "#")), "O", "0")

\* a normalisation that checks nothing
normalize_tag_unchecked(tag) ==
    [error |-> NoError, tag |-> <<"%", "2", "3">> \o cleaned(tag)]

\* utils.normalize_tag: the error raised (NoError if none) and the result
normalize_tag(tag) ==
    LET t1 == cleaned(tag) IN
    IF \E i \in 1..Len(t1) : t1[i] \notin VALID_TAG_CHARS
    THEN [error |-> ValueErrorInvalidChar, tag |-> <<>>]
    ELSE IF Len(t1) < 3
    THEN [error |-> ValueErrorTooShort, tag |-> <<>>]
    ELSE IF ~startswith(t1, <<"%", "2", "3">>)
    THEN [error |-> NoError, tag |-> <<"%", "2", "3">> \o t1]
    ELSE [error |-> NoError, tag |-> t1]

\* ------------------------------------------------------------------- state
VARIABLES
    cache,            \* rows of the sqlite table `cache`
    expiration_time,  \* SqliteCacheStorage._expiration_time
    cache_enabled,    \* a store was built and given to the client (TRUE),
                      \* or Client.cache is None (FALSE)
    tz,               \* local timezone offset of the process
    now,              \* the real (UTC) time
    pre,              \* the table as it was when the last operation started
    ret,              \* the last operation: its arguments and its outcome
    calls,            \* the requests in progress, one per calling thread
    last_write        \* the row of the latest create made by such a request

vars == <<cache, expiration_time, cache_enabled, tz, now, pre, ret, calls,
          last_write>>

\* ---------------------------------------------------------------- datetimes
\* A datetime is its wall-clock reading plus whether it carries tzinfo=UTC.
NoTime == [wall |-> 0 - 1000, aware |-> FALSE]

\* datetime.now(timezone.utc) at real time t
now_utc_aware(t) == [wall |-> t, aware |-> TRUE]

\* datetime.utcnow() at real time t: naive, UTC wall clock
utcnow(t) == [wall |-> t, aware |-> FALSE]

\* a conversion that takes every datetime as local time
timestamp_of_as_local(dt) == dt.wall - tz

\* datetime.timestamp(): a naive datetime is taken as local time
timestamp_of(dt) == IF dt.aware THEN dt.wall ELSE dt.wall - tz

\* datetime.fromtimestamp(epoch): naive, local wall clock
fromtimestamp(epoch) == [wall |-> epoch + tz, aware |-> FALSE]

\* ------------------------------------------------------------------- store
RowsOf(c, key) == {r \in c : r.key = key}

\* a plain INSERT into a table without primary key: the old row stays
create_insert_only(c, key, value, timestamp) ==
    c \cup {[key |-> key, value |-> json_dumps(value),
             timestamp |-> timestamp_of(timestamp)]}

\* INSERT OR REPLACE INTO cache (key, value, timestamp) VALUES (?, ?, ?)
create(c, key, value, timestamp) ==
    {r \in c : r.key # key}
        \cup {[key |-> key, value |-> json_dumps(value),
               timestamp |-> timestamp_of(timestamp)]}

\* an update that inserts the row when the key is absent
update_upsert(c, key, value, timestamp) ==
    {r \in c : r.key # key}
        \cup {[key |-> key, value |-> json_dumps(value),
               timestamp |-> timestamp_of(timestamp)]}

\* an update that leaves the timestamp column alone
update_value_only(c, key, value, timestamp) ==
    {IF r.key = key THEN [r EXCEPT !.value = json_dumps(value)] ELSE r :
        r \in c}

\* UPDATE cache SET value = ?, timestamp = ? WHERE key = ?
update(c, key, value, timestamp) ==
    {IF r.key = key
     THEN [r EXCEPT !.value = json_dumps(value),
                    !.timestamp = timestamp_of(timestamp)]
     ELSE r : r \in c}

\* a delete whose statement lost its WHERE clause
delete_every_key(c, key) == {}

\* DELETE FROM cache WHERE key = ?
delete(c, key) == {r \in c : r.key # key}

\* a clear that removes only the rows that a read would find expired
clear_expired_only(c) ==
    {r \in c :
        fromtimestamp(r.timestamp).wall + expiration_time > utcnow(now).wall}

\* DELETE FROM cache
clear(c) == {}

\* a comparison against the default TTL of the constructor
IsFresh_default_ttl(row, t) ==
    fromtimestamp(row.timestamp).wall + 1 > utcnow(t).wall

\* a comparison with >= in place of >
IsFresh_inclusive(row, t) ==
    fromtimestamp(row.timestamp).wall + expiration_time >= utcnow(t).wall

\* the comparison of read: stored time plus TTL is later than utcnow()
IsFresh(row, t) ==
    fromtimestamp(row.timestamp).wall + expiration_time > utcnow(t).wall

\* a read that raises on an expired row without deleting it
read_keep_expired(c, key, t, fault) ==
    IF fault
    THEN [error |-> StoreError, value |-> NoData, timestamp |-> NoTime,
          cache |-> c]
    ELSE IF RowsOf(c, key) = {}
    THEN [error |-> KeyErrorNotFound, value |-> NoData, timestamp |-> NoTime,
          cache |-> c]
    ELSE LET row == CHOOSE r \in RowsOf(c, key) : TRUE IN
         IF IsFresh(row, t)
         THEN [error |-> NoError, value |-> json_loads(row.value),
               timestamp |-> fromtimestamp(row.timestamp), cache |-> c]
         ELSE [error |-> KeyErrorExpired, value |-> NoData,
               timestamp |-> NoTime, cache |-> c]

\* SqliteCacheStorage.read at real time t; `fault` makes the SELECT raise
read(c, key, t, fault) ==
    IF fault
    THEN [error |-> StoreError, value |-> NoData, timestamp |-> NoTime,
          cache |-> c]
    ELSE IF RowsOf(c, key) = {}
    THEN [error |-> KeyErrorNotFound, value |-> NoData, timestamp |-> NoTime,
          cache |-> c]
    ELSE LET row == CHOOSE r \in RowsOf(c, key) : TRUE IN
         IF IsFresh(row, t)
         THEN [error |-> NoError, value |-> json_loads(row.value),
               timestamp |-> fromtimestamp(row.timestamp), cache |-> c]
         ELSE [error |-> KeyErrorExpired, value |-> NoData,
               timestamp |-> NoTime, cache |-> delete(c, key)]

\* ----------------------------------------------------------------- network
Statuses == {200, 404, 500}

NetOutcomes ==
    [kind : {"response"}, status : {200}, body : JsonPayloads, error : {NoError}]
    \cup [kind : {"response"}, status : Statuses \ {200}, body : {NoData},
          error : {NoError}]
    \cup [kind : {"transport"}, status : {0}, body : {NoData},
          error : TransportErrors]

\* Client._verify_status_code
verify_status_code(status_code) ==
    IF status_code # 200 THEN UnexpectedError ELSE NoError

\* a request that decodes the body without looking at the status code
request_unverified(net) ==
    IF net.kind = "transport"
    THEN [error |-> net.error, data |-> NoData]
    ELSE [error |-> NoError, data |-> net.body]

\* Client._request: the error raised (NoError if none) and the decoded body
request(net) ==
    IF net.kind = "transport"
    THEN [error |-> net.error, data |-> NoData]
    ELSE IF verify_status_code(net.status) # NoError
    THEN [error |-> verify_status_code(net.status), data |-> NoData]
    ELSE [error |-> NoError, data |-> net.body]

\* ---------------------------------------------------------------- pipeline
Faults == {"none", "read", "create"}

\* a lookup guard that does not ask whether the client has a store
UseCache_without_store(force_request) == ~force_request

\* a lookup guard that forgets force_request
UseCache_ignoring_force(force_request) == cache_enabled

\* the guard of the cache lookup
UseCache(force_request) == cache_enabled /\ ~force_request

\* a write-back guard that saves after any failure of the lookup
SaveToCache_after_any_error(cache_exception, force_request) ==
    cache_enabled /\ cache_exception # NoError /\ ~force_request

\* a write-back guard that tells the expired KeyError from the missing one
SaveToCache_not_found_only(cache_exception, force_request) ==
    cache_enabled /\ cache_exception = KeyErrorNotFound /\ ~force_request

\* the guard of the write-back
SaveToCache(cache_exception, force_request) ==
    cache_enabled /\ IsKeyError(cache_exception) /\ ~force_request

\* Client._get_info_from_url at real time t
get_info_from_url(c, url, force_request, net, fault, t) ==
    LET looked == UseCache(force_request)
        rd == read(c, url, t, fault = "read")
        c1 == IF looked THEN rd.cache ELSE c
        hit == looked /\ rd.error = NoError
               /\ Truthy(rd.value) /\ rd.timestamp # NoTime
        cache_exception == IF looked THEN rd.error ELSE NoError
        rq == request(net)
        save == SaveToCache(cache_exception, force_request)
        base == [error |-> NoError, data |-> NoData, is_from_cache |-> FALSE,
                 timestamp |-> NoTime, cache |-> c1,
                 reads |-> IF looked THEN 1 ELSE 0,
                 read_error |-> cache_exception,
                 fetches |-> 1, creates |-> 0,
                 net |-> rq.data, net_error |-> rq.error]
    IN  IF hit
        THEN [base EXCEPT !.data = rd.value, !.is_from_cache = TRUE,
                          !.timestamp = rd.timestamp, !.fetches = 0,
                          !.net = NoData, !.net_error = NoError]
        ELSE IF rq.error # NoError
        THEN [base EXCEPT !.error = rq.error]
        ELSE IF save /\ fault = "create"
        THEN [base EXCEPT !.error = StoreError, !.creates = 1]
        ELSE IF save
        THEN [base EXCEPT !.data = rq.data, !.timestamp = now_utc_aware(t),
                          !.creates = 1,
                          !.cache = create(c1, url, rq.data, now_utc_aware(t))]
        ELSE [base EXCEPT !.data = rq.data, !.timestamp = now_utc_aware(t)]

\* ------------------------------------------------------------------ actions
Blank ==
    [op |-> "init", key |-> "", tag |-> <<>>, value |-> NoData, force |-> FALSE,
     fault |-> "none", net |-> NoData, net_error |-> NoError, at |-> 0,
     status |-> 0, ttl |-> 0, error |-> NoError, data |-> NoData,
     is_from_cache |-> FALSE, timestamp |-> NoTime, reads |-> 0,
     read_error |-> NoError, fetches |-> 0, creates |-> 0]

\* Threads that share one client and one store.
Callers == {1, 2}

\* the locals of a call of _get_info_from_url and the line it has reached
IdleCall ==
    [pc |-> "idle", url |-> "", force |-> FALSE, cache_exception |-> NoError,
     net |-> NoData, data |-> NoData, is_from_cache |-> FALSE,
     timestamp |-> NoTime, error |-> NoError, fetches |-> 0, creates |-> 0]

Init ==
    /\ calls = [p \in Callers |-> IdleCall]
    /\ last_write = {}
    /\ cache = {}
    /\ expiration_time \in 1..MaxTTL
    /\ cache_enabled \in BOOLEAN
    /\ tz \in TZOffsets
    /\ now = 0
    /\ pre = {}
    /\ ret = Blank

\* time passes
Tick ==
    /\ now < MaxTime
    /\ now' = now + 1
    /\ pre' = cache
    /\ ret' = [Blank EXCEPT !.op = "tick", !.at = now + 1]
    /\ UNCHANGED <<cache, expiration_time, cache_enabled, tz, calls, last_write>>

\* The store operations below are those of the store given to the client; a
\* client built without a store has none to operate on.

\* the expiration_time setter
SetExpirationTime(d) ==
    /\ cache_enabled
    /\ expiration_time' = d
    /\ pre' = cache
    /\ ret' = [Blank EXCEPT !.op = "expiration_time", !.ttl = d, !.at = now]
    /\ UNCHANGED <<cache, cache_enabled, tz, now, calls, last_write>>

Create(key, value) ==
    /\ cache_enabled
    /\ cache' = create(cache, key, value, now_utc_aware(now))
    /\ pre' = cache
    /\ ret' = [Blank EXCEPT !.op = "create", !.key = key, !.value = value,
                            !.timestamp = now_utc_aware(now), !.at = now]
    /\ UNCHANGED <<expiration_time, cache_enabled, tz, now, calls, last_write>>

Update(key, value) ==
    /\ cache_enabled
    /\ cache' = update(cache, key, value, now_utc_aware(now))
    /\ pre' = cache
    /\ ret' = [Blank EXCEPT !.op = "update", !.key = key, !.value = value,
                            !.timestamp = now_utc_aware(now), !.at = now]
    /\ UNCHANGED <<expiration_time, cache_enabled, tz, now, calls, last_write>>

Read(key) ==
    LET rd == read(cache, key, now, FALSE) IN
    /\ cache_enabled
    /\ cache' = rd.cache
    /\ pre' = cache
    /\ ret' = [Blank EXCEPT !.op = "read", !.key = key, !.error = rd.error,
                            !.data = rd.value, !.timestamp = rd.timestamp,
                            !.reads = 1, !.read_error = rd.error, !.at = now]
    /\ UNCHANGED <<expiration_time, cache_enabled, tz, now, calls, last_write>>

Delete(key) ==
    /\ cache_enabled
    /\ cache' = delete(cache, key)
    /\ pre' = cache
    /\ ret' = [Blank EXCEPT !.op = "delete", !.key = key, !.at = now]
    /\ UNCHANGED <<expiration_time, cache_enabled, tz, now, calls, last_write>>

Clear ==
    /\ cache_enabled
    /\ cache' = clear(cache)
    /\ pre' = cache
    /\ ret' = [Blank EXCEPT !.op = "clear", !.at = now]
    /\ UNCHANGED <<expiration_time, cache_enabled, tz, now, calls, last_write>>

Resolve(url, force_request, net, fault) ==
    LET r == get_info_from_url(cache, url, force_request, net, fault, now) IN
    \* only a store call that the request makes can fail
    /\ fault = "read" => r.reads = 1
    /\ fault = "create" => r.creates = 1
    /\ cache' = r.cache
    /\ pre' = cache
    /\ ret' = [Blank EXCEPT !.op = "resolve", !.key = url,
                            !.force = force_request, !.fault = fault,
                            !.net = r.net, !.net_error = r.net_error,
                            !.status = IF r.fetches = 1 THEN net.status ELSE 0,
                            !.at = now, !.error = r.error, !.data = r.data,
                            !.is_from_cache = r.is_from_cache,
                            !.timestamp = r.timestamp, !.reads = r.reads,
                            !.read_error = r.read_error,
                            !.fetches = r.fetches, !.creates = r.creates]
    /\ UNCHANGED <<expiration_time, cache_enabled, tz, now, calls, last_write>>

Next ==
    \/ Tick
    \/ \E d \in 1..MaxTTL : SetExpirationTime(d)
    \/ \E key \in Keys, value \in Payloads : Create(key, value)
    \/ \E key \in Keys, value \in Payloads : Update(key, value)
    \/ \E key \in Keys : Read(key)
    \/ \E key \in Keys : Delete(key)
    \/ Clear
    \/ \E url \in Keys, force_request \in BOOLEAN, net \in NetOutcomes,
          fault \in Faults : Resolve(url, force_request, net, fault)

Spec == Init /\ [][Next]_vars

\* ------------------------------------------------------- interleaved calls
\* Two threads call _get_info_from_url on the same client.  A call advances
\* one store statement or one network call at a time.

\* a thread enters _get_info_from_url
CallStart(p, url, force_request) ==
    /\ calls[p].pc = "idle"
    /\ calls' = [calls EXCEPT ![p] = [IdleCall EXCEPT !.pc = "lookup",
                                          !.url = url,
                                          !.force = force_request]]
    /\ UNCHANGED <<cache, expiration_time, cache_enabled, tz, now, pre, ret,
                   last_write>>

\* lines 63-73: the cache lookup
CallLookup(p) ==
    LET call == calls[p]
        rd == read(cache, call.url, now, FALSE)
    IN  /\ call.pc = "lookup"
        /\ IF ~UseCache(call.force)
           THEN /\ calls' = [calls EXCEPT ![p].pc = "request"]
                /\ cache' = cache
           ELSE /\ cache' = rd.cache
                /\ IF rd.error = NoError /\ Truthy(rd.value)
                      /\ rd.timestamp # NoTime
                   THEN calls' = [calls EXCEPT ![p].pc = "done",
                                              ![p].data = rd.value,
                                              ![p].is_from_cache = TRUE,
                                              ![p].timestamp = rd.timestamp]
                   ELSE calls' = [calls EXCEPT ![p].pc = "request",
                                              ![p].cache_exception = rd.error]
        /\ UNCHANGED <<expiration_time, cache_enabled, tz, now, pre, ret,
                       last_write>>

\* lines 76-78: the network call and the fetch time
CallRequest(p, net) ==
    LET call == calls[p]
        rq == request(net)
    IN  /\ call.pc = "request"
        /\ IF rq.error # NoError
           THEN calls' = [calls EXCEPT ![p].pc = "done",
                                      ![p].fetches = 1,
                                      ![p].error = rq.error]
           ELSE calls' = [calls EXCEPT ![p].pc = "save",
                                      ![p].fetches = 1,
                                      ![p].net = rq.data,
                                      ![p].data = rq.data,
                                      ![p].timestamp = now_utc_aware(now)]
        /\ UNCHANGED <<cache, expiration_time, cache_enabled, tz, now, pre,
                       ret, last_write>>

\* lines 81-85: the write-back and the return
CallSave(p) ==
    LET call == calls[p] IN
    /\ call.pc = "save"
    /\ IF SaveToCache(call.cache_exception, call.force)
       THEN /\ cache' = create(cache, call.url, call.data, call.timestamp)
            /\ last_write' = {[key |-> call.url,
                               value |-> json_dumps(call.data),
                               timestamp |-> timestamp_of(call.timestamp)]}
            /\ calls' = [calls EXCEPT ![p].pc = "done", ![p].creates = 1]
       ELSE /\ calls' = [calls EXCEPT ![p].pc = "done"]
            /\ UNCHANGED <<cache, last_write>>
    /\ UNCHANGED <<expiration_time, cache_enabled, tz, now, pre, ret>>

InitThreads ==
    /\ Init
    /\ cache_enabled

NextThreads ==
    \/ Tick
    \/ \E p \in Callers, url \in Keys, force_request \in BOOLEAN :
          CallStart(p, url, force_request)
    \/ \E p \in Callers : CallLookup(p)
    \/ \E p \in Callers, net \in NetOutcomes : CallRequest(p, net)
    \/ \E p \in Callers : CallSave(p)

SpecThreads == InitThreads /\ [][NextThreads]_vars

\* --------------------------------------------------------------- endpoints
\* API.CLAN
API_CLAN == <<"/clans">>

\* Client.get_clan: normalise the tag, build the URL, run the pipeline on it.
\* A tag that normalize_tag rejects ends the call at line 175, whatever the
\* other arguments and the network are.
GetClan(tag) ==
    LET nt == normalize_tag(tag)
        url == API_CLAN \o <<"/">> \o nt.tag
    IN  /\ pre' = cache
        /\ \/ /\ nt.error # NoError
              /\ cache' = cache
              /\ ret' = [Blank EXCEPT !.op = "get_clan", !.tag = tag,
                                      !.error = nt.error, !.at = now]
           \/ /\ nt.error = NoError
              /\ \E force_request \in BOOLEAN, net \in NetOutcomes :
                    LET r == get_info_from_url(cache, url, force_request,
                                               net, "none", now)
                    IN  /\ cache' = r.cache
                        /\ ret' = [Blank EXCEPT
                              !.op = "get_clan", !.tag = tag, !.key = url,
                              !.force = force_request,
                              !.net = r.net, !.net_error = r.net_error,
                              !.status = IF r.fetches = 1 THEN net.status
                                         ELSE 0,
                              !.at = now, !.error = r.error, !.data = r.data,
                              !.is_from_cache = r.is_from_cache,
                              !.timestamp = r.timestamp, !.reads = r.reads,
                              !.read_error = r.read_error,
                              !.fetches = r.fetches, !.creates = r.creates]
        /\ UNCHANGED <<expiration_time, cache_enabled, tz, now, calls,
                       last_write>>

\* Calls of get_clan that one client makes at one instant, with tags of
\* every kind in any order.
NextEndpoints == \E tag \in Tags : GetClan(tag)

SpecEndpoints == Init /\ [][NextEndpoints]_vars

\* ------------------------------------------------------------ observations
\* the row the last operation found under its key
PreRow == CHOOSE r \in RowsOf(pre, ret.key) : TRUE

\* the last operation was a request that went through the cache lookup
Looked == ret.op = "resolve" /\ cache_enabled /\ ~ret.force

\* the instant a datetime denotes: python reads a naive datetime as local time
InstantOf(dt) == IF dt.aware THEN dt.wall ELSE dt.wall - tz

\* the network call of the last request was made and succeeded
Fetched == ret.op = "resolve" /\ ret.fetches = 1 /\ ret.net_error = NoError

\* ------------------------------------------------------------------- claims

\* C1: whenever the cache is enabled, force_request is false and the read of
\* K succeeds, the request returns the payload the read produced, with
\* is_from_cache = TRUE and the stored timestamp, and makes no network call.
C1_HitShortCircuitsNetwork ==
    (Looked /\ ret.reads = 1 /\ ret.read_error = NoError) =>
        /\ ret.error = NoError
        /\ ret.data = json_loads(PreRow.value)
        /\ ret.is_from_cache
        /\ timestamp_of(ret.timestamp) = PreRow.timestamp
        /\ ret.fetches = 0

\* C2: a request for a key without entry (cache enabled, not forced, network
\* and store working) fetches once, returns the fetched value with
\* is_from_cache = FALSE and stores it, and a second request at any time
\* within the TTL window is served that value from the cache without a fetch.
C2_MissWritesThrough ==
    (Looked /\ RowsOf(pre, ret.key) = {} /\ ret.fault = "none"
        /\ ret.net_error = NoError) =>
        /\ ret.fetches = 1
        /\ ret.error = NoError
        /\ ret.data = ret.net
        /\ ~ret.is_from_cache
        /\ \A t \in ret.at..(ret.at + expiration_time), net \in NetOutcomes :
              LET second == get_info_from_url(cache, ret.key, FALSE, net,
                                              "none", t)
              IN  /\ second.data = ret.data
                  /\ second.is_from_cache
                  /\ second.fetches = 0

\* C3: a forced request always calls the network exactly once and neither
\* reads nor writes the store: the table is the same before and after, and a
\* returned result has is_from_cache = FALSE.
C3_ForceBypassesCache ==
    (ret.op = "resolve" /\ ret.force) =>
        /\ ret.fetches = 1
        /\ ret.reads = 0
        /\ ret.creates = 0
        /\ cache = pre
        /\ ~ret.is_from_cache

\* a forced request that succeeded while the store held an expired entry
\* for its key
C3_Witness ==
    /\ ret.op = "resolve" /\ ret.force /\ cache_enabled
    /\ ret.error = NoError
    /\ \E r \in RowsOf(cache, ret.key) : ~IsFresh(r, ret.at)

\* C4 as stated, for a process whose local time is UTC (stored and read clock
\* agree): a read of an existing entry succeeds exactly when
\* now <= stored_at + ttl and fails with Expired exactly when
\* now > stored_at + ttl.
C4_FreshIffNotAfterDeadline ==
    (tz = 0 /\ ret.op = "read" /\ RowsOf(pre, ret.key) # {}) =>
        /\ ret.error = NoError <=>
              ret.at <= PreRow.timestamp + expiration_time
        /\ ret.error = KeyErrorExpired <=>
              ret.at > PreRow.timestamp + expiration_time

\* C4 amended: a read of an existing entry succeeds exactly when utcnow() is
\* strictly before fromtimestamp(stored epoch) + ttl, and fails with Expired
\* otherwise; at the instant utcnow() = fromtimestamp(stored epoch) + ttl the
\* entry is already expired.
C4_FreshIffStrictlyBeforeDeadline ==
    (ret.op = "read" /\ RowsOf(pre, ret.key) # {}) =>
        /\ ret.error = NoError <=>
              ret.at < PreRow.timestamp + tz + expiration_time
        /\ ret.error = KeyErrorExpired <=>
              ret.at >= PreRow.timestamp + tz + expiration_time

\* a read in a UTC process at exactly stored_at + ttl that failed with Expired
C4_Witness ==
    /\ ret.op = "read" /\ RowsOf(pre, ret.key) # {}
    /\ tz = 0
    /\ ret.at = PreRow.timestamp + expiration_time
    /\ ret.error = KeyErrorExpired

\* C5: a read that finds its entry expired fails with Expired, returns no
\* value and removes the entry, so that any later read of the key fails with
\* NotFound; a read that finds its entry fresh leaves the entry in place.
C5_ReadTriggeredEviction ==
    (ret.op = "read" /\ RowsOf(pre, ret.key) # {}) =>
        IF IsFresh(PreRow, ret.at)
        THEN /\ ret.error = NoError
             /\ RowsOf(cache, ret.key) = RowsOf(pre, ret.key)
        ELSE /\ ret.error = KeyErrorExpired
             /\ ret.data = NoData
             /\ RowsOf(cache, ret.key) = {}
             /\ \A t \in now..(MaxTime + 1) :
                   read(cache, ret.key, t, FALSE).error = KeyErrorNotFound

\* a read that failed with Expired while another key kept its entry
C5_Witness ==
    /\ ret.op = "read" /\ RowsOf(pre, ret.key) # {}
    /\ ret.error = KeyErrorExpired
    /\ cache # {}

\* C6: the table never holds two rows with the same key, and after
\* create(key, value, timestamp) the key has exactly one row, carrying the
\* value and the timestamp of that create.
C6_OneEntryPerKey ==
    /\ \A key \in Keys : Cardinality(RowsOf(cache, key)) <= 1
    /\ ret.op = "create" =>
          RowsOf(cache, ret.key) =
              {[key |-> ret.key, value |-> json_dumps(ret.value),
                timestamp |-> timestamp_of(ret.timestamp)]}

\* a create on a key that had an entry with another value and timestamp
C6_Witness ==
    /\ ret.op = "create" /\ RowsOf(pre, ret.key) # {}
    /\ PreRow.value # json_dumps(ret.value)
    /\ PreRow.timestamp # timestamp_of(ret.timestamp)

\* C7: update on a key without entry changes nothing: the table is the same
\* before and after and a later read of the key fails with NotFound.
C7_UpdateAbsentIsNoOp ==
    (ret.op = "update" /\ RowsOf(pre, ret.key) = {}) =>
        /\ cache = pre
        /\ \A t \in now..(MaxTime + 1) :
              read(cache, ret.key, t, FALSE).error = KeyErrorNotFound

\* an update of an absent key while the other key has an entry
C7_Witness ==
    /\ ret.op = "update" /\ RowsOf(pre, ret.key) = {}
    /\ pre # {}

\* C8 as stated: when the read inside a request fails with Expired the value
\* is fetched and returned but not written back; create is called only after
\* a read that failed with NotFound.
C8_ExpiredMissNotWrittenBack ==
    /\ (Looked /\ ret.read_error = KeyErrorExpired /\ Fetched) =>
          /\ ret.creates = 0
          /\ RowsOf(cache, ret.key) = {}
    /\ (ret.op = "resolve" /\ ret.creates = 1) =>
          ret.read_error = KeyErrorNotFound

\* C8 amended: when the read inside a request fails with Expired the value is
\* fetched and, as after NotFound, written back with create and returned;
\* create is called after a successful fetch exactly when the read failed
\* with a KeyError (NotFound or Expired).
C8_ExpiredMissWrittenBack ==
    /\ (Looked /\ ret.read_error = KeyErrorExpired) => ret.fetches = 1
    /\ (Looked /\ ret.read_error = KeyErrorExpired /\ Fetched) =>
          /\ ret.creates = 1
          /\ ret.fault = "none" =>
                /\ ret.data = ret.net
                /\ RowsOf(cache, ret.key) =
                      {[key |-> ret.key, value |-> json_dumps(ret.net),
                        timestamp |-> ret.at]}
    /\ ret.op = "resolve" =>
          (ret.creates = 1 <=>
              (Fetched /\ ret.read_error \in
                              {KeyErrorNotFound, KeyErrorExpired}))

\* a request whose read failed with Expired and which stored the fetched value
C8_Witness ==
    /\ Looked /\ ret.read_error = KeyErrorExpired /\ Fetched
    /\ ret.creates = 1
    /\ RowsOf(pre, ret.key) # {}
    /\ RowsOf(cache, ret.key) # {}

\* C9: once the entry for K is older than the TTL, the next request for K
\* (not forced, network and store working) calls the network and leaves the
\* store with an entry for K holding the fetched value and the fetch time.
C9_ExpiredEntryRefreshed ==
    (Looked /\ ret.fault = "none" /\ ret.net_error = NoError
        /\ RowsOf(pre, ret.key) # {}
        /\ ret.at > PreRow.timestamp + expiration_time) =>
        /\ ret.fetches = 1
        /\ RowsOf(cache, ret.key) =
              {[key |-> ret.key, value |-> json_dumps(ret.net),
                timestamp |-> ret.at]}

\* C10: whenever the network call of a request succeeds the request returns
\* the fetched value, whatever failure the store raised during the call.
C10_CacheFailureNeverSurfaced ==
    Fetched => (ret.error = NoError /\ ret.data = ret.net)

\* C11: when the network call of a request fails (transport error or a
\* status other than 200) the error it raised is the error of the request,
\* the call was made once, nothing is returned and no row is created or
\* changed by the request.
C11_FetchFailurePropagates ==
    (ret.op = "resolve" /\ ret.fetches = 1 /\ ret.status # 200) =>
        /\ ret.error # NoError
        /\ ret.error = ret.net_error
        /\ ret.data = NoData
        /\ ret.timestamp = NoTime
        /\ ret.creates = 0
        /\ cache \subseteq pre

\* a request that missed the cache (so a write-back was due) and whose
\* network call failed
C11_Witness ==
    /\ Looked /\ ret.read_error = KeyErrorNotFound
    /\ ret.fetches = 1 /\ ret.status = 500
    /\ ret.error = UnexpectedError
    /\ pre # {}

\* the statuses a caller may retry: rate-limited and server errors
Retryable(status_code) == status_code = 429 \/ status_code >= 500

\* C12: the error a request raises for a non-success status tells the
\* retryable statuses from the non-retryable ones: no status of the other
\* class raises the same error.
C12_StatusMeaningPreserved ==
    (ret.op = "resolve" /\ ret.fetches = 1 /\ ret.status \in Statuses \ {200}) =>
        \A other \in Statuses \ {200} :
            Retryable(other) # Retryable(ret.status) =>
                verify_status_code(other) # ret.error

\* C13 as stated: after create(key, payload, t) with a UTC timestamp t, every
\* read of key that succeeds returns the payload as it was written and a
\* timestamp denoting the instant t, for every payload and timezone offset.
C13_StoreRoundTrip ==
    ret.op = "create" =>
        \A t \in ret.at..(MaxTime + 1) :
            LET rd == read(cache, ret.key, t, FALSE) IN
            rd.error = NoError =>
                /\ rd.value = ret.value
                /\ InstantOf(rd.timestamp) = InstantOf(ret.timestamp)

\* C13 amended: the round trip returns the payload as written when its
\* mappings have string keys (what a decoded JSON response is), and a mapping
\* with other keys comes back with its keys turned into strings; in both cases
\* the timestamp read denotes the instant t, whatever the timezone offset.
C13_JsonRoundTrip ==
    ret.op = "create" =>
        \A t \in ret.at..(MaxTime + 1) :
            LET rd == read(cache, ret.key, t, FALSE) IN
            rd.error = NoError =>
                /\ ret.value.keys # "int" => rd.value = ret.value
                /\ ret.value.keys = "int" =>
                      rd.value = [ret.value EXCEPT !.keys = "str"]
                /\ InstantOf(rd.timestamp) = InstantOf(ret.timestamp)
                /\ InstantOf(rd.timestamp) = ret.at

\* a create of a list payload in a process away from UTC, which a read at the
\* same instant returns
C13_Witness ==
    /\ ret.op = "create" /\ ret.value = EmptyList
    /\ tz # 0
    /\ read(cache, ret.key, now, FALSE).error = NoError

\* C14: the verdict of a read follows from the real time elapsed since the
\* write and the TTL alone, whatever the timezone offset: an entry younger
\* than the TTL is returned, an entry older than the TTL is expired.
C14_VerdictIndependentOfTimezone ==
    (ret.op = "read" /\ RowsOf(pre, ret.key) # {}) =>
        /\ ret.at - PreRow.timestamp < expiration_time => ret.error = NoError
        /\ ret.at - PreRow.timestamp > expiration_time =>
              ret.error = KeyErrorExpired

\* both threads have finished a request for the same key that wrote back
BothWrote ==
    /\ \A p \in Callers : calls[p].pc = "done" /\ calls[p].creates = 1
    /\ calls[1].url = calls[2].url

\* C15: when two interleaved requests for a key both miss, both fetch and
\* both write back, the table ends with exactly one row for the key, the one
\* of the create that ran last, and each thread gets the value it fetched
\* itself with is_from_cache = FALSE.
C15_LastWriterWins ==
    BothWrote =>
        /\ Cardinality(RowsOf(cache, calls[1].url)) = 1
        /\ RowsOf(cache, calls[1].url) = last_write
        /\ \A p \in Callers :
              /\ calls[p].fetches = 1
              /\ calls[p].error = NoError
              /\ calls[p].data = calls[p].net
              /\ ~calls[p].is_from_cache

\* both threads found no entry, fetched different values at different times
\* and wrote them back
C15_Witness ==
    /\ BothWrote
    /\ \A p \in Callers : calls[p].cache_exception = KeyErrorNotFound
    /\ calls[1].data # calls[2].data
    /\ calls[1].timestamp # calls[2].timestamp

\* C16: a client without store calls the network exactly once per request,
\* makes no store call and returns is_from_cache = FALSE with the time of the
\* fetch, whether or not force_request is set.
C16_NoStoreNoCacheUse ==
    (ret.op = "resolve" /\ ~cache_enabled) =>
        /\ ret.fetches = 1
        /\ ret.reads = 0
        /\ ret.creates = 0
        /\ cache = pre
        /\ ~ret.is_from_cache
        /\ ret.net_error = NoError =>
              /\ ret.error = NoError
              /\ ret.data = ret.net
              /\ ret.timestamp = now_utc_aware(ret.at)

\* an unforced request of a client without store that returned a value
C16_Witness ==
    /\ ret.op = "resolve" /\ ~cache_enabled /\ ~ret.force
    /\ ret.error = NoError /\ ret.data = Dict1

\* C17: when the lookup of a request fails with a store error that is not a
\* KeyError, the network is called, its value is returned with
\* is_from_cache = FALSE, and no create is attempted: the table is unchanged.
C17_StoreErrorSwallowed ==
    (Looked /\ ret.read_error = StoreError) =>
        /\ ret.fetches = 1
        /\ ret.creates = 0
        /\ cache = pre
        /\ ~ret.is_from_cache
        /\ ret.net_error = NoError =>
              /\ ret.error = NoError
              /\ ret.data = ret.net

\* a request whose lookup raised a store error while the key had a row, and
\* which returned the fetched value
C17_Witness ==
    /\ Looked /\ ret.read_error = StoreError
    /\ RowsOf(pre, ret.key) # {}
    /\ ret.error = NoError /\ ret.data = Dict1

\* the row that the last operation wrote, if it wrote one
Written ==
    IF ret.op = "create" \/ (ret.op = "update" /\ RowsOf(pre, ret.key) # {})
    THEN {[key |-> ret.key, value |-> json_dumps(ret.value),
           timestamp |-> ret.at]}
    ELSE IF ret.op = "resolve" /\ ret.creates = 1 /\ ret.error = NoError
    THEN {[key |-> ret.key, value |-> json_dumps(ret.net),
           timestamp |-> ret.at]}
    ELSE {}

\* C18: value and timestamp change together: after a create, or an update of
\* an existing key, the row of the key is exactly the written pair, and every
\* row that an operation leaves changed in the table is the pair it wrote.
C18_ValueAndTimestampTogether ==
    /\ Written # {} => RowsOf(cache, ret.key) = Written
    /\ cache \ pre \subseteq Written

\* an update that replaced a row holding another value and another timestamp
C18_Witness ==
    /\ ret.op = "update" /\ RowsOf(pre, ret.key) # {}
    /\ PreRow.value # json_dumps(ret.value)
    /\ PreRow.timestamp # ret.at
    /\ RowsOf(cache, ret.key) = Written

\* C19: a request that misses and writes back returns the fetch time t and
\* stores t, and any later request served from that row returns a timestamp
\* denoting the same instant t.
C19_HitTimestampIsFetchTime ==
    (Looked /\ ret.creates = 1 /\ ret.error = NoError) =>
        /\ ret.timestamp = now_utc_aware(ret.at)
        /\ \A r \in RowsOf(cache, ret.key) : r.timestamp = ret.at
        /\ \A t \in ret.at..(MaxTime + 1), net \in NetOutcomes :
              LET second == get_info_from_url(cache, ret.key, FALSE, net,
                                              "none", t)
              IN  second.is_from_cache =>
                      InstantOf(second.timestamp) = InstantOf(ret.timestamp)

\* a request away from UTC that wrote back a value which a second request
\* one time unit later is served from the cache
C19_Witness ==
    /\ Looked /\ ret.creates = 1 /\ ret.error = NoError
    /\ tz # 0
    /\ get_info_from_url(cache, ret.key, FALSE,
                         CHOOSE net \in NetOutcomes : TRUE, "none",
                         ret.at + 1).is_from_cache

\* C20: setting expiration_time leaves every row as it was, and from then on
\* a read judges every row, also those written before, against the new
\* duration.
C20_NewTtlDecides ==
    ret.op = "expiration_time" =>
        /\ cache = pre
        /\ expiration_time = ret.ttl
        /\ \A r \in cache, t \in now..(MaxTime + 1) :
              read(cache, r.key, t, FALSE).error = NoError <=>
                  t < r.timestamp + tz + ret.ttl

\* after the TTL was set, a row written before is expired under the new
\* duration though it would be fresh under a longer one
C20_Witness ==
    /\ ret.op = "expiration_time"
    /\ \E r \in cache :
          /\ read(cache, r.key, now, FALSE).error = KeyErrorExpired
          /\ now < r.timestamp + tz + MaxTTL

\* C21: delete(key) removes the row of key if there is one and changes
\* nothing otherwise; it raises nothing, leaves the rows of every other key
\* as they were, and any later read of key fails with NotFound.
C21_DeleteRemovesOnlyItsKey ==
    ret.op = "delete" =>
        /\ ret.error = NoError
        /\ cache = {r \in pre : r.key # ret.key}
        /\ RowsOf(pre, ret.key) = {} => cache = pre
        /\ \A t \in now..(MaxTime + 1) :
              read(cache, ret.key, t, FALSE).error = KeyErrorNotFound

\* a delete of a key that had a fresh row while another key had one too
C21_Witness ==
    /\ ret.op = "delete"
    /\ \E r \in RowsOf(pre, ret.key) : IsFresh(r, ret.at)
    /\ \E r \in cache : r.key # ret.key

\* C22: after clear() the table is empty, so a read of any key at any later
\* time fails with NotFound, never with Expired, however fresh the rows were;
\* a key gets a row again only through a create for that key (called
\* directly or as the write-back of a request).
C22_ClearEmptiesStore ==
    /\ ret.op = "clear" =>
          /\ cache = {}
          /\ \A key \in Keys, t \in now..(MaxTime + 1) :
                read(cache, key, t, FALSE).error = KeyErrorNotFound
    /\ \A key \in Keys :
          (RowsOf(pre, key) = {} /\ RowsOf(cache, key) # {}) =>
              /\ ret.key = key
              /\ ret.op = "create" \/ (ret.op = "resolve" /\ ret.creates = 1)

\* a clear of a table that held a fresh row and an expired one
C22_Witness ==
    /\ ret.op = "clear"
    /\ \E r \in pre : IsFresh(r, ret.at)
    /\ \E r \in pre : ~IsFresh(r, ret.at)

\* C24: when a request (not forced) finds the row of K expired and the
\* network call that follows fails, the row deleted by the read stays
\* deleted: the request raises the network error, the table holds no row for
\* K, the rows of other keys are as before, and a later read of K fails with
\* NotFound.
C24_EvictionNotRolledBack ==
    (Looked /\ ret.read_error = KeyErrorExpired /\ ret.net_error # NoError) =>
        /\ RowsOf(pre, ret.key) # {}
        /\ ret.error = ret.net_error
        /\ ret.data = NoData
        /\ ret.creates = 0
        /\ cache = {r \in pre : r.key # ret.key}
        /\ \A t \in now..(MaxTime + 1) :
              read(cache, ret.key, t, FALSE).error = KeyErrorNotFound

\* a request that found a row with a non-empty payload expired and then got
\* a 500 from the network
C24_Witness ==
    /\ Looked /\ ret.read_error = KeyErrorExpired
    /\ ret.status = 500
    /\ \E r \in RowsOf(pre, ret.key) : r.value.items > 0
    /\ RowsOf(cache, ret.key) = {}

\* the tag has an invalid character, or fewer than 3 characters, once '#' is
\* stripped, letters are upper-cased and 'O' is replaced by '0'
Malformed(tag) ==
    \/ \E i \in 1..Len(cleaned(tag)) : cleaned(tag)[i] \notin VALID_TAG_CHARS
    \/ Len(cleaned(tag)) < 3

\* C23: a call of a tag-taking endpoint (get_clan) with a malformed tag
\* raises the ValueError of normalize_tag and makes no cache read, no
\* network call and no cache write: the table is as it was.
C23_MalformedTagRejectedBeforeIO ==
    (ret.op = "get_clan" /\ Malformed(ret.tag)) =>
        /\ ret.error \in {ValueErrorInvalidChar, ValueErrorTooShort}
        /\ ret.data = NoData
        /\ ret.reads = 0
        /\ ret.fetches = 0
        /\ ret.creates = 0
        /\ cache = pre

\* a tag of three characters that is too short once its '#' is stripped,
\* rejected by a client whose store holds a row
C23_Witness ==
    /\ ret.op = "get_clan"
    /\ Len(ret.tag) = 3
    /\ ret.error = ValueErrorTooShort
    /\ cache_enabled /\ cache # {}

TypeOK ==
    /\ now \in 0..MaxTime
    /\ expiration_time \in 1..MaxTTL
    /\ tz \in TZOffsets
    /\ cache_enabled \in BOOLEAN
====
